---- MODULE Spec2Model ----
(***************************************************************************)
(* A model of the ZenithWS client (index.js, carried in src/tool.js from   *)
(* line 236): the pending table and its deadline timers, the subscription  *)
(* table, the socket life cycle with its event handlers, and the three     *)
(* scheduler timers.  One action is one turn of the JavaScript event loop: *)
(* an API call made by the caller, a socket event, or a timer firing.      *)
(***************************************************************************)
EXTENDS Integers, Sequences, FiniteSets, TLC

(* Bounds of the model. *)
MaxReq == 2        \* z_call / z_subscribe invocations (transaction identifiers)
MaxConnects == 2   \* connect() invocations (sockets created)

VARIABLES
  reconnect,          \* this.reconnect
  connected,          \* this.connected
  fnDisconnect,       \* this.fnDisconnect: "null", "undefined" or "fn"
  lastTransactionID,  \* this.lastTransactionID
  pending,            \* this.pending: property name -> request id, 0 for undefined
  pendingKeys,        \* the own property names of this.pending
  subscriptions,      \* this.subscriptions: key -> callbacks in registration order
  reqs,               \* the req objects built by z_call and z_subscribe, by TransactionID
  ws,                 \* this.ws: 0 for undefined, else the socket it refers to
  sock,               \* each socket (one per connect()): its state
  connPromise,        \* the promise returned by each connect()
  token,              \* this.token: "undefined" or "held"
  tokenRefresh,       \* this.token.refresh(): "idle" or "inflight"
  pingTimer,          \* this.pingTimer
  tokenTimer,         \* this.tokenTimer
  subscriptionTimer,  \* this.subscriptionTimer
  orphanSubTimers,    \* live subscription timers whose handle was overwritten
  turn                \* what the handler of the current turn did

vars == <<reconnect, connected, fnDisconnect, lastTransactionID, pending,
          pendingKeys, subscriptions, reqs, ws, sock, connPromise,
          token, tokenRefresh, pingTimer, tokenTimer, subscriptionTimer,
          orphanSubTimers, turn>>

corrVars == <<lastTransactionID, pending, pendingKeys, subscriptions, reqs>>
connVars == <<reconnect, connected, fnDisconnect, ws, sock, connPromise,
              token, tokenRefresh>>
timerVars == <<pingTimer, tokenTimer, subscriptionTimer, orphanSubTimers>>

-----------------------------------------------------------------------------
(* Values. *)

TxIds == 1..MaxReq
SockIds == 1..MaxConnects

(* The topics the caller subscribes to, as <<Controller, Topic>>. *)
SubTopics == {<<"Market", "Markets">>, <<"Zenith", "ServerInfo">>}

(* The controller and topic of the calls made with z_call. *)
CallController == "Trading"
CallTopic == "QueryOrders"

(* Response payloads (jsonRes.Data); callers read Data.Result. *)
DataValues == {[Result |-> "Success"], [Result |-> "Rejected"]}

(* Action and Result of an inbound message. *)
Envelopes == {<<"Publish", "Success">>, <<"Publish", "Invalid">>,
              <<"Publish", "Rejected">>, <<"Publish", "Error">>,
              <<"Error", "Success">>}

(* Inbound messages: TransactionID 0 stands for a message without one. *)
Messages ==
  {[TransactionID |-> t, Controller |-> CallController, Topic |-> CallTopic,
    Action |-> e[1], Result |-> e[2], Data |-> d] :
      t \in TxIds, e \in Envelopes, d \in DataValues}
  \cup
  {[TransactionID |-> 0, Controller |-> k[1], Topic |-> k[2],
    Action |-> e[1], Result |-> e[2], Data |-> d] :
      k \in SubTopics, e \in Envelopes, d \in DataValues}

NoMsg == [TransactionID |-> 0, Controller |-> "", Topic |-> "",
          Action |-> "", Result |-> "", Data |-> [Result |-> ""]]

(* A promise: settled at most once, later fulfill/reject calls are ignored. *)
Unsettled == [st |-> "pending", val |-> [code |-> "none"]]
Fulfilled(v) == [st |-> "fulfilled", val |-> v]
Rejected(v) == [st |-> "rejected", val |-> v]
Settle(p, outcome) == IF p.st = "pending" THEN outcome ELSE p

(* new ZenithError('TIMEOUT', ...) *)
TimeoutError == [code |-> "TIMEOUT"]
(* The error ws.send reports or throws. *)
SendError == [code |-> "SEND"]

(* makeKey(obj): obj.Controller + ':' + obj.Topic *)
makeKey(obj) == obj.Controller \o ":" \o obj.Topic

(* A TransactionID used as a property name of this.pending. *)
TxKey(t) == ToString(t)

SubKeys == {makeKey([Controller |-> k[1], Topic |-> k[2]]) : k \in SubTopics}
PendKeys == {TxKey(t) : t \in TxIds} \cup SubKeys

(* The turn record: the handler that ran; for a message, the key it resolved
   to and the request it matched (0: none); the message itself when it
   settled a request or reached a callback; the callbacks invoked, in order;
   the exception that escaped the handler; and the error raised by a
   promise callback that ran in the turn (NoError: none was raised). *)
NoError == [name |-> "", code |-> "", message |-> ""]

Turn(op, key, matched, msg, invoked, thrown) ==
  [op |-> op, key |-> key, matched |-> matched, msg |-> msg,
   invoked |-> invoked, thrown |-> thrown, raised |-> NoError]

(* new ZenithError(code, message) *)
ZenithError(code, message) ==
  [name |-> "ZenithError", code |-> code, message |-> message]

(* The turn of a handler that handles no message and invokes no callback. *)
Ran(op, thrown) == Turn(op, "", 0, NoMsg, <<>>, thrown)

-----------------------------------------------------------------------------
(* Construction. *)

Init ==
  /\ reconnect = TRUE
  /\ connected = FALSE
  /\ fnDisconnect = "null"
  /\ lastTransactionID = 0
  /\ pending = [k \in PendKeys |-> 0]
  /\ pendingKeys = {}
  /\ subscriptions = [k \in SubKeys |-> <<>>]
  /\ reqs = <<>>
  /\ ws = 0
  /\ sock = [i \in SockIds |-> "none"]
  /\ connPromise = [i \in SockIds |-> "none"]
  /\ token = "undefined"
  /\ tokenRefresh = "idle"
  /\ pingTimer = "undefined"
  /\ tokenTimer = "undefined"
  /\ subscriptionTimer = "undefined"
  /\ orphanSubTimers = 0
  /\ turn = Ran("constructor", "none")

-----------------------------------------------------------------------------
(* Timers: a handle is "undefined", "armed" (the timer is live) or
   "expired" (the handle is still set, the timer has fired or was cleared). *)

(* resetPingTimeout(): clear the old timer, arm a new one. *)
resetPingTimeout == "armed"

(* auth_setRefresh(): clear the old timer, arm a new one. *)
auth_setRefresh == "armed"

(* The live subscription timers left behind when subscriptionPing()
   overwrites this.subscriptionTimer without clearing it. *)
subscriptionPingOrphans ==
  IF subscriptionTimer = "armed" THEN orphanSubTimers + 1 ELSE orphanSubTimers

(* this.subscriptions.length: subscriptions is an array that only ever gets
   properties named Controller:Topic, which do not count towards length. *)
subscriptionsLength == 0

-----------------------------------------------------------------------------
(* ws.send(frame, callback): what the socket does with a frame.
   "ok": written.  "cberr": the completion callback is called with an error,
   at once when the socket is not open, and otherwise before the next event.
   "throw": send raises synchronously (this.ws is undefined, or the socket
   refuses the call). *)
SendOutcomes ==
  IF ws = 0 THEN {"throw"}
  ELSE IF sock[ws] = "open" THEN {"ok", "cberr"}
  ELSE {"throw", "cberr"}

(* The request object once the send has been attempted: rejected when send
   threw or its callback reported an error; the deadline timer is armed
   unless send threw, which skips the setTimeout. *)
sentRequest(req, out) ==
  [req EXCEPT !.failTimer = IF out = "throw" THEN "unset" ELSE "armed",
              !.promise = IF out = "ok" THEN @ ELSE Settle(@, Rejected(SendError))]

(* Faulty variant: the counter is read without being advanced once it has
   left zero. *)
nextTransactionID_notAdvanced ==
  IF lastTransactionID = 0 THEN 1 ELSE lastTransactionID

(* ++this.lastTransactionID: the value the new request carries. *)
nextTransactionID == lastTransactionID + 1

(* The shared tail of z_call and z_subscribe: the request takes the next
   TransactionID and is recorded under key; the ping timer is reset, the
   request sent, and the deadline timer armed.  The table refers to the
   request object, here the position of the request in reqs. *)
SendRequest(req, key, out) ==
  /\ lastTransactionID' = nextTransactionID
  /\ pending' = [pending EXCEPT ![key] = Len(reqs) + 1]
  /\ pendingKeys' = pendingKeys \cup {key}
  /\ pingTimer' = resetPingTimeout
  /\ reqs' = Append(reqs, sentRequest(
                [req EXCEPT !.TransactionID = nextTransactionID], out))

(* z_call(controller, topic, params).  @pre Must be connected. *)
z_call ==
  /\ connected
  /\ lastTransactionID < MaxReq
  /\ \E out \in SendOutcomes :
       SendRequest([Controller |-> CallController, Topic |-> CallTopic,
                    Action |-> "none", TransactionID |-> 0,
                    promise |-> Unsettled, failTimer |-> "unset"],
                   TxKey(nextTransactionID), out)
  /\ turn' = Ran("z_call", "none")
  /\ UNCHANGED <<subscriptions, tokenTimer, subscriptionTimer, orphanSubTimers>>
  /\ UNCHANGED connVars

(* z_subscribe(controller, topic, params, cb) without a callback: the
   returned promise is rejected with a TypeError and nothing else happens. *)
z_subscribe_nocb ==
  /\ connected
  /\ turn' = Ran("z_subscribe_nocb", "none")
  /\ UNCHANGED <<corrVars, connVars, timerVars>>

(* z_subscribe(controller, topic, params, cb): the callback is named by the
   request that registers it. *)
z_subscribe(topic) ==
  LET req == [Controller |-> topic[1], Topic |-> topic[2], Action |-> "Sub",
              TransactionID |-> 0, promise |-> Unsettled, failTimer |-> "unset"]
      key == makeKey(req)
  IN
  /\ connected
  /\ lastTransactionID < MaxReq
  /\ subscriptions' =
       [subscriptions EXCEPT ![key] = Append(@, Len(reqs) + 1)]
  /\ orphanSubTimers' = subscriptionPingOrphans
  /\ subscriptionTimer' = "armed"
  /\ \E out \in SendOutcomes : SendRequest(req, key, out)
  /\ turn' = Ran("z_subscribe", "none")
  /\ UNCHANGED tokenTimer
  /\ UNCHANGED connVars

(* The property of this.pending a request's deadline timer clears:
   req.TransactionID in z_call, the subscription key in z_subscribe. *)
failTimerKey(t) ==
  IF reqs[t].Action = "Sub" THEN makeKey(reqs[t])
  ELSE TxKey(reqs[t].TransactionID)

(* Faulty variant: the deadline rejects the promise and leaves the entry in place. *)
failTimerFires_keepsEntry(t) ==
  /\ t \in 1..Len(reqs)
  /\ reqs[t].failTimer = "armed"
  /\ reqs' = [reqs EXCEPT ![t].failTimer = "fired",
                          ![t].promise = Settle(@, Rejected(TimeoutError))]
  /\ turn' = Ran("failTimer", "none")
  /\ UNCHANGED <<lastTransactionID, pending, pendingKeys, subscriptions>>
  /\ UNCHANGED <<connVars, timerVars>>

(* The deadline timer of request t fires (CALL_TIMEOUT_MS after the send). *)
failTimerFires(t) ==
  /\ t \in 1..Len(reqs)
  /\ reqs[t].failTimer = "armed"
  /\ pending' = [pending EXCEPT ![failTimerKey(t)] = 0]
  /\ reqs' = [reqs EXCEPT ![t].failTimer = "fired",
                          ![t].promise = Settle(@, Rejected(TimeoutError))]
  /\ turn' = Ran("failTimer", "none")
  /\ UNCHANGED <<lastTransactionID, pendingKeys, subscriptions>>
  /\ UNCHANGED <<connVars, timerVars>>

-----------------------------------------------------------------------------
(* ws_onMessage(data, flags) *)

(* Faulty variant: a response is paired with the latest request issued, not with
   the TransactionID it carries. *)
messageKey_latestIssued(m) ==
  IF m.TransactionID # 0 THEN TxKey(lastTransactionID) ELSE makeKey(m)

(* key: the TransactionID when the message has one, else makeKey. *)
messageKey(m) ==
  IF m.TransactionID # 0 THEN TxKey(m.TransactionID) ELSE makeKey(m)

(* Faulty variant: every Result but Success counts as a failure. *)
isError_notSuccess(m) == (m.Action = "Error") \/ (m.Result # "Success")

(* (jsonRes.Action == 'Error') || (jsonRes.Result == 'Error') *)
isError(m) == (m.Action = "Error") \/ (m.Result = "Error")

(* Faulty variant: the matched request is always fulfilled. *)
messageOutcome_alwaysFulfils(m) == Fulfilled(m.Data)

(* The outcome handed to the matched request's promise. *)
messageOutcome(m) == IF isError(m) THEN Rejected(m.Data) ELSE Fulfilled(m.Data)

(* The sequence s back to front. *)
Reversed(s) == [i \in 1..Len(s) |-> s[Len(s) + 1 - i]]

(* Faulty variant: the latest registration is called first. *)
callbacksOf_latestFirst(key) ==
  IF key \in SubKeys THEN Reversed(subscriptions[key]) ELSE <<>>

(* this.subscriptions[key]: the callbacks registered under key. *)
callbacksOf(key) == IF key \in SubKeys THEN subscriptions[key] ELSE <<>>

(* Faulty variant: a message that completes a pending entry is not dispatched. *)
messageCallbacks_unlessMatched(m, d) ==
  IF d # 0 THEN <<>> ELSE callbacksOf(messageKey(m))

(* The callbacks the handler goes on to invoke: none after the early return
   that follows a rejection, else those registered under key, in order. *)
messageCallbacks(m, d) ==
  IF d # 0 /\ isError(m) THEN <<>> ELSE callbacksOf(messageKey(m))

(* this.pending[key]: 0 (undefined) for a name the table never held. *)
pendingAt(key) == IF key \in DOMAIN pending THEN pending[key] ELSE 0

(* The then handler of auth_authToken(), which runs when the message
   fulfils an Auth/AuthToken call with Data d: for d.Result other than
   Success it evaluates `throw ZenithError(...)`, a call of the class
   without new, which raises a TypeError before any ZenithError exists. *)
authTokenRaised(d, m) ==
  IF /\ d # 0
     /\ reqs[d].Controller = "Auth" /\ reqs[d].Topic = "AuthToken"
     /\ reqs[d].promise.st = "pending"
     /\ ~isError(m)
     /\ m.Data.Result # "Success"
  THEN [name |-> "TypeError", code |-> "", message |-> ""]
  ELSE NoError

ws_onMessage(m) ==
  LET key == messageKey(m)
      d == pendingAt(key)
  IN
  /\ IF d # 0
     THEN /\ pending' = [pending EXCEPT ![key] = 0]
          /\ reqs' = [reqs EXCEPT
               ![d].failTimer = IF @ = "armed" THEN "cleared" ELSE @,
               ![d].promise = Settle(@, messageOutcome(m))]
     ELSE UNCHANGED <<pending, reqs>>
  /\ turn' = LET cbs == messageCallbacks(m, d) IN
       [Turn("message", key, d, IF d # 0 \/ cbs # <<>> THEN m ELSE NoMsg,
             cbs, "none")
          EXCEPT !.raised = authTokenRaised(d, m)]
  /\ UNCHANGED <<lastTransactionID, pendingKeys, subscriptions>>
  /\ UNCHANGED <<connVars, timerVars>>

-----------------------------------------------------------------------------
(* connect(fnDisconnect): remember the callback and start auth(). *)
connect(fn) ==
  /\ \E i \in SockIds :
       /\ sock[i] = "none"
       /\ \A j \in SockIds : j < i => sock[j] # "none"
       /\ sock' = [sock EXCEPT ![i] = "auth"]
       /\ connPromise' = [connPromise EXCEPT ![i] = "pending"]
  /\ fnDisconnect' = fn
  /\ turn' = Ran("connect", "none")
  /\ UNCHANGED <<reconnect, connected, ws, token, tokenRefresh>>
  /\ UNCHANGED <<corrVars, timerVars>>

(* The errors oauth.owner.getToken() is rejected with: a transport failure
   carrying a code, or a response whose body is JSON with the members error
   and error_description (parses), or is not JSON. *)
AuthFailures ==
  {[code |-> "ECONNREFUSED", parses |-> FALSE, error |-> "",
    error_description |-> ""],
   [code |-> "", parses |-> FALSE, error |-> "", error_description |-> ""]}
  \cup
  {[code |-> "", parses |-> TRUE, error |-> e, error_description |-> "denied"] :
     e \in {"invalid_client", "unauthorized_client", "invalid_grant"}}

(* Faulty variant: the error of the body is passed through whatever it is. *)
authError_passThrough(err) ==
  IF err.code # "" THEN ZenithError(err.code, "Connection error: " \o err.code)
  ELSE IF ~err.parses THEN [name |-> "SyntaxError", code |-> "", message |-> ""]
  ELSE ZenithError(err.error, err.error_description)

(* The error the catch handler of auth() throws for err: JSON.parse raises
   a SyntaxError on a body that is not JSON. *)
authError(err) ==
  IF err.code # "" THEN ZenithError(err.code, "Connection error: " \o err.code)
  ELSE IF ~err.parses THEN [name |-> "SyntaxError", code |-> "", message |-> ""]
  ELSE IF err.error = "invalid_client"
       THEN ZenithError("BADCREDS", "Bad credentials: " \o err.error_description)
  ELSE IF err.error = "unauthorized_client"
       THEN ZenithError("NOACCESS",
                        "Unauthorized client (credentials ok, no access)")
  ELSE ZenithError(err.error, err.error_description)

(* auth() fails with err: the promise of connect() is rejected with the
   error thrown by the catch handler; this.token is not assigned and
   auth_setRefresh() does not run. *)
authFails(i, err) ==
  /\ sock[i] = "auth"
  /\ sock' = [sock EXCEPT ![i] = "authfailed"]
  /\ connPromise' = [connPromise EXCEPT ![i] = "rejected"]
  /\ turn' = [Ran("authFails", "none") EXCEPT !.raised = authError(err)]
  /\ UNCHANGED <<reconnect, connected, fnDisconnect, ws, token, tokenRefresh>>
  /\ UNCHANGED <<corrVars, timerVars>>

(* auth() succeeds: the token is stored, the refresh timer set, and
   connect_ws() runs.  signed = FALSE: token.sign or new WebSocket throws,
   which connect_ws catches and logs, leaving its promise unsettled. *)
authSucceeds(i, signed) ==
  /\ sock[i] = "auth"
  /\ token' = "held"
  /\ tokenTimer' = auth_setRefresh
  /\ IF signed
     THEN sock' = [sock EXCEPT ![i] = "connecting"] /\ ws' = i
     ELSE sock' = [sock EXCEPT ![i] = "nosocket"] /\ ws' = ws
  /\ turn' = Ran("authSucceeds", "none")
  /\ UNCHANGED <<reconnect, connected, fnDisconnect, connPromise, tokenRefresh>>
  /\ UNCHANGED <<corrVars, pingTimer, subscriptionTimer, orphanSubTimers>>

(* ws.on('open') *)
ws_onOpen(i) ==
  /\ sock[i] = "connecting"
  /\ sock' = [sock EXCEPT ![i] = "open"]
  /\ connected' = TRUE
  /\ pingTimer' = resetPingTimeout
  /\ connPromise' = [connPromise EXCEPT ![i] = IF @ = "pending" THEN "fulfilled" ELSE @]
  /\ turn' = Ran("open", "none")
  /\ UNCHANGED <<reconnect, fnDisconnect, ws, token, tokenRefresh>>
  /\ UNCHANGED <<corrVars, tokenTimer, subscriptionTimer, orphanSubTimers>>

(* ws.on('error'): the socket then goes on to close. *)
ws_onError(i) ==
  /\ sock[i] \in {"connecting", "open"}
  /\ sock' = [sock EXCEPT ![i] = "closing"]
  /\ IF ~connected
     THEN /\ reconnect' = FALSE
          /\ connPromise' =
               [connPromise EXCEPT ![i] = IF @ = "pending" THEN "rejected" ELSE @]
     ELSE UNCHANGED <<reconnect, connPromise>>
  /\ turn' = Ran("error", "none")
  /\ UNCHANGED <<connected, fnDisconnect, ws, token, tokenRefresh>>
  /\ UNCHANGED <<corrVars, timerVars>>

(* What the close handler does after its reconnect guard: nothing when
   this.fnDisconnect is unset; otherwise it evaluates `fnDisconnect`, a name
   that connect_ws does not have in scope, which raises a ReferenceError
   before any call is made. *)
closeNotifies ==
  IF ~reconnect THEN Ran("close", "none")
  ELSE IF fnDisconnect = "fn"
       THEN Ran("close", "ReferenceError")
       ELSE Ran("close", "none")

(* ws.on('close'): after an error, after close(), or closed by the server. *)
ws_onClose(i) ==
  /\ sock[i] \in {"open", "closing"}
  /\ sock' = [sock EXCEPT ![i] = "closed"]
  /\ turn' = closeNotifies
  /\ UNCHANGED <<reconnect, connected, fnDisconnect, ws, connPromise, token,
                 tokenRefresh>>
  /\ UNCHANGED <<corrVars, timerVars>>

(* ws.on('ping'): reset the ping timer and answer with a pong. *)
ws_onPing(i) ==
  /\ sock[i] = "open"
  /\ pingTimer' = resetPingTimeout
  /\ turn' = Ran("ping", "none")
  /\ UNCHANGED <<tokenTimer, subscriptionTimer, orphanSubTimers>>
  /\ UNCHANGED <<corrVars, connVars>>

(* Socket i has emitted its open event, which fulfilled its connect(). *)
hasOpened(i) == connPromise[i] = "fulfilled"

(* ws.on('message') of socket i: a message arrives on a socket that has
   opened, also while it is closing. *)
ws_message(i, m) ==
  /\ sock[i] \in {"open", "closing"}
  /\ hasOpened(i)
  /\ ws_onMessage(m)

(* clearTimeout on a handle, then the handle is set to undefined. *)
clearedHandle == "undefined"

(* Faulty variant: the flag is cleared after this.ws.close(), so not when it raises. *)
disconnectReconnect_afterClose == IF ws = 0 THEN reconnect ELSE FALSE

(* The reconnect flag as disconnect() leaves it: cleared by its first
   statement, whether or not the later this.ws.close() raises. *)
disconnectReconnect == FALSE

(* Faulty variant: disconnect() cancels the deadline timers of the requests
   and leaves their promises as they are. *)
disconnectRequests_timersCleared ==
  [t \in 1..Len(reqs) |->
     [reqs[t] EXCEPT !.failTimer = IF @ = "armed" THEN "cleared" ELSE @]]

(* The request objects as disconnect() leaves them: it touches neither
   their promises nor their deadline timers. *)
disconnectRequests == reqs

(* disconnect(): this.ws.close() raises a TypeError when no socket was
   ever created, after the flag and the timers have been dealt with. *)
disconnect ==
  /\ reconnect' = disconnectReconnect
  /\ pingTimer' = clearedHandle
  /\ tokenTimer' = clearedHandle
  /\ subscriptionTimer' = clearedHandle
  /\ IF ws = 0
     THEN /\ turn' = Ran("disconnect", "TypeError")
          /\ sock' = sock
     ELSE /\ turn' = Ran("disconnect", "none")
          /\ sock' = [sock EXCEPT ![ws] =
                        IF @ \in {"connecting", "open"} THEN "closing" ELSE @]
  /\ reqs' = disconnectRequests
  /\ UNCHANGED <<connected, fnDisconnect, ws, connPromise, token, tokenRefresh,
                 orphanSubTimers>>
  /\ UNCHANGED <<lastTransactionID, pending, pendingKeys, subscriptions>>

-----------------------------------------------------------------------------
(* Scheduler timers firing. *)

(* The idle ping timer fires: this.ws.ping(). *)
pingTimerFires ==
  /\ pingTimer = "armed"
  /\ pingTimer' = "expired"
  /\ turn' = Ran("pingTimer", IF ws = 0 THEN "TypeError" ELSE "none")
  /\ UNCHANGED <<tokenTimer, subscriptionTimer, orphanSubTimers>>
  /\ UNCHANGED <<corrVars, connVars>>

(* Whether a subscription timer that fires calls subscriptionPing() again. *)
subscriptionTimerRearms ==
  subscriptionsLength > 0 /\ pingTimer # "undefined"

(* The subscription timer held in this.subscriptionTimer fires. *)
subscriptionTimerFires ==
  /\ subscriptionTimer = "armed"
  /\ subscriptionTimer' = IF subscriptionTimerRearms THEN "armed" ELSE "expired"
  /\ turn' = Ran("subscriptionTimer", "none")
  /\ UNCHANGED <<pingTimer, tokenTimer, orphanSubTimers>>
  /\ UNCHANGED <<corrVars, connVars>>

(* A subscription timer whose handle was overwritten fires. *)
orphanSubscriptionTimerFires ==
  /\ orphanSubTimers > 0
  /\ orphanSubTimers' = orphanSubTimers - 1
  /\ IF subscriptionTimerRearms
     THEN /\ subscriptionTimer' = "armed"
          /\ orphanSubTimers' = subscriptionPingOrphans - 1
     ELSE UNCHANGED subscriptionTimer
  /\ turn' = Ran("subscriptionTimer", "none")
  /\ UNCHANGED <<pingTimer, tokenTimer>>
  /\ UNCHANGED <<corrVars, connVars>>

-----------------------------------------------------------------------------
(* Token refresh. *)

(* The token refresh timer fires: auth_refreshToken() starts
   this.token.refresh() and returns; nothing else happens in this turn. *)
tokenTimerFires ==
  /\ tokenTimer = "armed"
  /\ tokenRefresh = "idle"
  /\ tokenTimer' = "expired"
  /\ tokenRefresh' = "inflight"
  /\ turn' = Ran("tokenTimer", "none")
  /\ UNCHANGED <<reconnect, connected, fnDisconnect, ws, sock, connPromise, token>>
  /\ UNCHANGED <<corrVars, pingTimer, subscriptionTimer, orphanSubTimers>>

(* auth_authToken(): z_call('Auth', 'AuthToken', ...). *)
authTokenRequest ==
  [Controller |-> "Auth", Topic |-> "AuthToken", Action |-> "none",
   TransactionID |-> 0, promise |-> Unsettled, failTimer |-> "unset"]

(* this.token.refresh() is fulfilled: the new token is stored, the refresh
   timer set again, and auth_authToken() sends the Auth/AuthToken call. *)
refreshSucceeds ==
  /\ tokenRefresh = "inflight"
  /\ lastTransactionID < MaxReq
  /\ tokenRefresh' = "idle"
  /\ token' = "held"
  /\ tokenTimer' = auth_setRefresh
  /\ \E out \in SendOutcomes :
       SendRequest(authTokenRequest, TxKey(nextTransactionID), out)
  /\ turn' = Ran("refreshSucceeds", "none")
  /\ UNCHANGED <<reconnect, connected, fnDisconnect, ws, sock, connPromise>>
  /\ UNCHANGED <<subscriptions, subscriptionTimer, orphanSubTimers>>

(* this.token.refresh() is rejected: auth_refreshToken() has no handler for
   it, so the rejection goes unhandled and no timer is set. *)
refreshFails ==
  /\ tokenRefresh = "inflight"
  /\ tokenRefresh' = "idle"
  /\ turn' = Ran("refreshFails", "none")
  /\ UNCHANGED <<reconnect, connected, fnDisconnect, ws, sock, connPromise, token>>
  /\ UNCHANGED <<corrVars, timerVars>>

-----------------------------------------------------------------------------
(* Every handler of the client. *)
Next ==
  \/ z_call
  \/ z_subscribe_nocb
  \/ \E topic \in SubTopics : z_subscribe(topic)
  \/ \E t \in TxIds : failTimerFires(t)
  \/ \E fn \in {"undefined", "fn"} : connect(fn)
  \/ \E i \in SockIds, err \in AuthFailures : authFails(i, err)
  \/ \E i \in SockIds, signed \in BOOLEAN : authSucceeds(i, signed)
  \/ \E i \in SockIds : ws_onOpen(i)
  \/ \E i \in SockIds : ws_onError(i)
  \/ \E i \in SockIds : ws_onClose(i)
  \/ \E i \in SockIds : ws_onPing(i)
  \/ \E i \in SockIds, m \in Messages : ws_message(i, m)
  \/ disconnect
  \/ pingTimerFires
  \/ subscriptionTimerFires
  \/ orphanSubscriptionTimerFires
  \/ tokenTimerFires
  \/ refreshSucceeds
  \/ refreshFails

Spec == Init /\ [][Next]_vars

(* One session: the caller connects once and the socket stays up or is
   closed by the server, while calls and subscriptions are made, answered
   in any order, time out, or fail to be sent. *)
SessionNext ==
  \/ z_call
  \/ z_subscribe_nocb
  \/ \E topic \in SubTopics : z_subscribe(topic)
  \/ \E t \in TxIds : failTimerFires(t)
  \/ connect("fn") /\ sock[1] = "none"
  \/ \E err \in AuthFailures : authFails(1, err)
  \/ \E signed \in BOOLEAN : authSucceeds(1, signed)
  \/ ws_onOpen(1)
  \/ ws_onClose(1)
  \/ \E m \in Messages : ws_message(1, m)

SessionSpec == Init /\ [][SessionNext]_vars

(* The life cycle of the connection: connect, the socket's events and
   disconnect in any order, with messages arriving but no request made. *)
ConnNext ==
  \/ \E fn \in {"undefined", "fn"} : connect(fn)
  \/ \E i \in SockIds, err \in AuthFailures : authFails(i, err)
  \/ \E i \in SockIds, signed \in BOOLEAN : authSucceeds(i, signed)
  \/ \E i \in SockIds : ws_onOpen(i)
  \/ \E i \in SockIds : ws_onError(i)
  \/ \E i \in SockIds : ws_onClose(i)
  \/ \E i \in SockIds : ws_onPing(i)
  \/ \E i \in SockIds, m \in Messages : ws_message(i, m)
  \/ disconnect
  \/ pingTimerFires

ConnSpec == Init /\ [][ConnNext]_vars

(* The messages of a server that confirms or refuses: Action Publish,
   Result Success or Error, one payload. *)
Replies ==
  {m \in Messages : /\ m.Action = "Publish"
                    /\ m.Result \in {"Success", "Error"}
                    /\ m.Data = [Result |-> "Success"]}

(* The timers of one connection: requests are made on an open socket,
   messages and pings arrive, the scheduler timers fire, and the caller
   disconnects at any moment. *)
TimerNext ==
  \/ z_call
  \/ \E topic \in SubTopics : z_subscribe(topic)
  \/ connect("fn") /\ sock[1] = "none"
  \/ authSucceeds(1, TRUE)
  \/ ws_onOpen(1)
  \/ ws_onPing(1)
  \/ \E m \in Replies : ws_message(1, m)
  \/ disconnect
  \/ ws_onClose(1)
  \/ pingTimerFires
  \/ subscriptionTimerFires
  \/ orphanSubscriptionTimerFires

TimerSpec == Init /\ [][TimerNext]_vars

(* The answers to a call: Action Publish, Result Success or Error, and a
   payload whose own Result is Success or Rejected. *)
CallReplies ==
  {m \in Messages : /\ m.TransactionID # 0
                    /\ m.Action = "Publish"
                    /\ m.Result \in {"Success", "Error"}}

(* The token of one connection: the refresh timer fires, the refresh
   succeeds or fails, the Auth/AuthToken call is answered or times out, and
   the caller disconnects at any moment. *)
TokenNext ==
  \/ connect("fn") /\ sock[1] = "none"
  \/ \E err \in AuthFailures : authFails(1, err)
  \/ \E signed \in BOOLEAN : authSucceeds(1, signed)
  \/ ws_onOpen(1)
  \/ tokenTimerFires
  \/ refreshSucceeds
  \/ refreshFails
  \/ \E t \in TxIds : failTimerFires(t)
  \/ \E m \in CallReplies : ws_message(1, m)
  \/ disconnect
  \/ ws_onClose(1)

TokenSpec == Init /\ [][TokenNext]_vars

(* Requests across a disconnect: calls and subscriptions are made on an
   open socket, answered or not, and the caller disconnects at any moment.
   A deadline timer that is armed fires unless it is cleared first. *)
TeardownNext ==
  \/ z_call
  \/ \E topic \in SubTopics : z_subscribe(topic)
  \/ \E t \in TxIds : failTimerFires(t)
  \/ connect("fn") /\ sock[1] = "none"
  \/ authSucceeds(1, TRUE)
  \/ ws_onOpen(1)
  \/ \E m \in Replies : ws_message(1, m)
  \/ disconnect
  \/ ws_onClose(1)

TeardownSpec ==
  /\ Init
  /\ [][TeardownNext]_vars
  /\ \A t \in TxIds : WF_vars(failTimerFires(t))

-----------------------------------------------------------------------------
(* Vocabulary of the properties. *)

IsCall(t) == reqs[t].Action = "none"
IsSub(t) == reqs[t].Action = "Sub"

(* The key under which request t was recorded in the pending table. *)
KeyOf(t) == IF IsSub(t) THEN reqs[t].Controller \o ":" \o reqs[t].Topic
            ELSE ToString(t)

(* The callbacks registered on key k by the first n requests, oldest first. *)
RECURSIVE RegisteredOn(_, _)
RegisteredOn(k, n) ==
  IF n = 0 THEN <<>>
  ELSE IF IsSub(n) /\ KeyOf(n) = k
       THEN Append(RegisteredOn(k, n - 1), n)
       ELSE RegisteredOn(k, n - 1)

(* Action or Result of message m is Error. *)
CarriesError(m) == m.Action = "Error" \/ m.Result = "Error"

(* This step is the handling of an inbound message. *)
MessageStep == turn'.op = "message"

(* The state of the promise of request t; "none" before the request is made. *)
PromiseState(t) == IF t \in 1..Len(reqs) THEN reqs[t].promise.st ELSE "none"

(* This step is the deadline expiry of request t. *)
ExpiryOf(t) ==
  /\ turn'.op = "failTimer"
  /\ reqs[t].failTimer = "armed"
  /\ reqs'[t].failTimer = "fired"

-----------------------------------------------------------------------------
(* C1: a response settles no promise but that of the call whose
   TransactionID it carries: in a message step, a request's promise changes
   only if the message resolved to that request's own key (for a call, the
   message carries the call's TransactionID), a response that finds its
   call still unsettled in the table settles it with its own Data, and a
   promise that is settled never changes again. *)
C1_ResponsePairsByTransactionID ==
  [][\A t \in 1..Len(reqs) :
       /\ (MessageStep /\ reqs'[t].promise # reqs[t].promise)
            => /\ turn'.matched = t
               /\ turn'.key = KeyOf(t)
               /\ IsCall(t) => turn'.msg.TransactionID = t
       /\ (MessageStep /\ IsCall(t) /\ turn'.key = ToString(t)
             /\ pending[ToString(t)] = t /\ reqs[t].promise.st = "pending")
            => /\ reqs'[t].promise.st # "pending"
               /\ reqs'[t].promise.val = turn'.msg.Data
       /\ reqs[t].promise.st # "pending" => reqs'[t].promise = reqs[t].promise
    ]_vars

(* Two calls answered in the reverse order, each with its own payload. *)
C1_Witness ==
  /\ Len(reqs) >= 2
  /\ IsCall(1) /\ IsCall(2)
  /\ turn.op = "message" /\ turn.matched = 1 /\ turn.msg.TransactionID = 1
  /\ reqs[2].promise = Fulfilled([Result |-> "Success"])
  /\ reqs[2].failTimer = "cleared"
  /\ reqs[1].promise = Fulfilled([Result |-> "Rejected"])

(* C2: when the deadline of a z_call fires, its pending entry is removed
   and its promise is rejected, with TIMEOUT if it was still unsettled; a
   response carrying that TransactionID after the deadline matches nothing,
   changes no promise and no table, invokes no callback and raises nothing. *)
C2_TimeoutThenLateResponseDropped ==
  [][\A t \in 1..Len(reqs) : IsCall(t) =>
       /\ ExpiryOf(t)
            => /\ pending'[ToString(t)] = 0
               /\ reqs'[t].promise.st = "rejected"
               /\ reqs[t].promise.st = "pending"
                    => reqs'[t].promise.val = [code |-> "TIMEOUT"]
       /\ (MessageStep /\ turn'.key = ToString(t) /\ reqs[t].failTimer = "fired")
            => /\ turn'.matched = 0
               /\ turn'.invoked = <<>>
               /\ turn'.thrown = "none"
               /\ reqs' = reqs
               /\ pending' = pending
               /\ subscriptions' = subscriptions
    ]_vars

(* A response arrives for a call that was rejected with TIMEOUT. *)
C2_Witness ==
  \E t \in 1..Len(reqs) :
    /\ IsCall(t)
    /\ reqs[t].failTimer = "fired"
    /\ reqs[t].promise = Rejected([code |-> "TIMEOUT"])
    /\ turn.op = "message" /\ turn.key = ToString(t) /\ turn.matched = 0

(* C3 as stated: with two callbacks registered on a key, every inbound
   message that resolves to the key is delivered to both, oldest first. *)
C3_Original ==
  \A k \in SubKeys :
    (turn.op = "message" /\ turn.key = k /\ Len(RegisteredOn(k, Len(reqs))) >= 2)
      => turn.invoked = RegisteredOn(k, Len(reqs))

(* C3 as amended: with two callbacks registered on a key, every inbound
   message that resolves to the key is delivered to both, oldest first,
   except a message carrying Error that rejects the subscribe pending on
   the key, which is delivered to neither. *)
C3_TwoCallbacksInRegistrationOrder ==
  \A k \in SubKeys :
    (turn.op = "message" /\ turn.key = k /\ Len(RegisteredOn(k, Len(reqs))) >= 2)
      => turn.invoked =
           IF turn.matched # 0 /\ CarriesError(turn.msg)
           THEN <<>> ELSE RegisteredOn(k, Len(reqs))

(* A message reaches two callbacks of one key. *)
C3_Witness ==
  /\ turn.op = "message"
  /\ Len(turn.invoked) = 2
  /\ turn.invoked[1] < turn.invoked[2]

(* C4 as stated, for a subscribe that is still unsettled with its deadline
   running and a message that carries no Error: the message for its key
   fulfils its promise with the Data and reaches its callback. *)
C4_FirstMessageFulfilsSubscribe ==
  [][\A t \in 1..Len(reqs) :
       (/\ IsSub(t)
        /\ reqs[t].promise.st = "pending"
        /\ reqs[t].failTimer = "armed"
        /\ MessageStep
        /\ turn'.key = KeyOf(t)
        /\ ~CarriesError(turn'.msg))
       => /\ reqs'[t].promise = Fulfilled(turn'.msg.Data)
          /\ \E i \in 1..Len(turn'.invoked) : turn'.invoked[i] = t
    ]_vars

(* C5 as stated: a message whose key has callbacks is delivered to all of
   them, whether or not it completes a pending entry, fulfilled or rejected. *)
C5_Original ==
  (turn.op = "message" /\ turn.key \in SubKeys)
    => turn.invoked = subscriptions[turn.key]

(* C5 as amended: a message whose key has callbacks is delivered to all of
   them when it completes no pending entry and when it fulfils one; a
   message that rejects a pending entry (Action or Result is Error) is
   delivered to none. *)
C5_DeliveredUnlessRejecting ==
  (turn.op = "message" /\ turn.key \in SubKeys)
    => /\ turn.matched = 0 => turn.invoked = subscriptions[turn.key]
       /\ (turn.matched # 0 /\ ~CarriesError(turn.msg))
            => turn.invoked = subscriptions[turn.key]
       /\ (turn.matched # 0 /\ CarriesError(turn.msg)) => turn.invoked = <<>>

(* One message fulfils the pending subscribe and reaches the callbacks. *)
C5_Witness ==
  /\ turn.op = "message"
  /\ turn.matched # 0
  /\ turn.key \in SubKeys
  /\ turn.invoked # <<>>
  /\ reqs[turn.matched].promise = Fulfilled(turn.msg.Data)

(* C6: disconnect() leaves the reconnect flag false, also when closing the
   socket raises; the flag never becomes true again; and a close event that
   finds it false returns at once, invoking nothing and raising nothing. *)
C6_CloseAfterDisconnectIsSilent ==
  [][/\ turn'.op = "disconnect" => ~reconnect'
     /\ ~reconnect => ~reconnect'
     /\ (turn'.op = "close" /\ ~reconnect)
          => (turn'.invoked = <<>> /\ turn'.thrown = "none")
    ]_vars

(* The socket of a connected client, with a callback set, closes after
   disconnect(). *)
C6_Witness ==
  /\ turn.op = "close"
  /\ connected
  /\ ~reconnect
  /\ fnDisconnect = "fn"

(* C7 as stated: a close event with the reconnect flag true and a
   disconnection callback set invokes that callback. *)
C7_UnexpectedCloseInvokesCallback ==
  (turn.op = "close" /\ reconnect /\ fnDisconnect = "fn")
    => (Len(turn.invoked) = 1 /\ turn.thrown = "none")

(* C8 as stated: a response matched to an unsettled call with Result
   Invalid, Rejected or Error fulfils the promise with the payload. *)
C8_Original ==
  [][(/\ MessageStep
      /\ turn'.matched # 0
      /\ reqs[turn'.matched].promise.st = "pending"
      /\ turn'.msg.Result \in {"Invalid", "Rejected", "Error"})
     => reqs'[turn'.matched].promise = Fulfilled(turn'.msg.Data)
    ]_vars

(* C8 as amended: a response matched to an unsettled call fulfils the
   promise with the payload when its Result is Invalid or Rejected (and its
   Action is not Error), whatever Result the payload itself carries; with
   Result Error it rejects the promise with the payload. *)
C8_BusinessResultsAreData ==
  [][(/\ MessageStep
      /\ turn'.matched # 0
      /\ reqs[turn'.matched].promise.st = "pending")
     => /\ (turn'.msg.Result \in {"Invalid", "Rejected"} /\ turn'.msg.Action # "Error")
             => reqs'[turn'.matched].promise = Fulfilled(turn'.msg.Data)
        /\ turn'.msg.Result = "Error"
             => reqs'[turn'.matched].promise = Rejected(turn'.msg.Data)
    ]_vars

(* A response with Result Invalid fulfilled its call with a payload whose own
   Result is Rejected. *)
C8_Witness ==
  /\ turn.op = "message"
  /\ turn.matched # 0
  /\ IsCall(turn.matched)
  /\ turn.msg.Result = "Invalid"
  /\ turn.msg.Data.Result = "Rejected"
  /\ reqs[turn.matched].promise = Fulfilled(turn.msg.Data)

(* C9: a message that matches a pending entry leaves the deadline timer
   cancelled and the entry removed, and the promise, if it was unsettled,
   rejected with the Data exactly when Action or Result is Error and
   fulfilled with the Data otherwise. *)
C9_MatchCancelsRemovesSettles ==
  [][/\ (MessageStep /\ turn'.key \in DOMAIN pending)
          => turn'.matched = pending[turn'.key]
     /\ (MessageStep /\ turn'.matched # 0)
          => /\ reqs'[turn'.matched].failTimer \in {"cleared", "unset"}
             /\ pending'[turn'.key] = 0
             /\ reqs[turn'.matched].promise.st = "pending"
                  => reqs'[turn'.matched].promise =
                       IF CarriesError(turn'.msg)
                       THEN Rejected(turn'.msg.Data)
                       ELSE Fulfilled(turn'.msg.Data)
    ]_vars

(* A message carrying Error rejected the request it matched and cancelled
   its deadline. *)
C9_Witness ==
  /\ turn.op = "message"
  /\ turn.matched # 0
  /\ CarriesError(turn.msg)
  /\ reqs[turn.matched].failTimer = "cleared"
  /\ reqs[turn.matched].promise = Rejected(turn.msg.Data)
  /\ pending[turn.key] = 0

(* C10 as stated: the deadline expiry of one request changes that request
   and its own pending entry only: every other request, every pending entry
   that holds another request, the subscription table, the flags, the socket
   and the scheduler timers stay as they were. *)
C10_ExpiryTouchesOnlyItsCall ==
  [][\A t \in 1..Len(reqs) : ExpiryOf(t) =>
       /\ \A u \in 1..Len(reqs) : u # t => reqs'[u] = reqs[u]
       /\ \A k \in DOMAIN pending : pending[k] # t => pending'[k] = pending[k]
       /\ UNCHANGED <<subscriptions, lastTransactionID>>
       /\ UNCHANGED <<connVars, timerVars>>
    ]_vars

(* C11 as stated: a connect() is fulfilled once its socket has opened, and
   is rejected once authentication has failed or once signing or creating
   the socket has thrown; after such a failure it is not left pending. *)
C11_ConnectSettlesAfterFailure ==
  \A i \in SockIds :
    /\ sock[i] = "authfailed" => connPromise[i] = "rejected"
    /\ sock[i] = "nosocket" => connPromise[i] = "rejected"

(* C14 as stated: no socket is created or open while another socket of the
   client is open. *)
C14_AtMostOneLiveSocket ==
  \A i, j \in SockIds :
    (i # j /\ sock[i] = "open") => sock[j] \notin {"connecting", "open"}

(* C17 as stated, for a client with no other socket in use: an error event
   on a socket that has not opened rejects the promise of its connect() and
   clears the reconnect flag; an error event on a socket that has opened
   leaves the promise, the flags, the pending table and the timers as they
   were. *)
C17_ErrorBeforeAndAfterOpen ==
  [][\A i \in SockIds :
       /\ (/\ turn'.op = "error"
           /\ sock[i] = "connecting" /\ sock'[i] = "closing"
           /\ \A j \in SockIds \ {i} :
                sock[j] \notin {"auth", "connecting", "open", "closing"})
            => (connPromise'[i] = "rejected" /\ ~reconnect')
       /\ (turn'.op = "error" /\ sock[i] = "open" /\ sock'[i] = "closing")
            => /\ UNCHANGED <<reconnect, connected, connPromise>>
               /\ UNCHANGED <<corrVars, timerVars>>
    ]_vars

(* C15: the TransactionIDs of the requests made by z_call and z_subscribe,
   in the order they were made, are strictly increasing, so no two requests
   carry the same one; none exceeds the counter. *)
C15_TransactionIDsStrictlyIncrease ==
  /\ \A i, j \in 1..Len(reqs) :
       i < j => reqs[i].TransactionID < reqs[j].TransactionID
  /\ \A i \in 1..Len(reqs) :
       reqs[i].TransactionID >= 1 /\ reqs[i].TransactionID <= lastTransactionID

(* A subscribe followed by a call took the identifiers 1 and 2. *)
C15_Witness ==
  /\ Len(reqs) = 2
  /\ IsSub(1) /\ IsCall(2)
  /\ reqs[1].TransactionID = 1 /\ reqs[2].TransactionID = 2

(* C16 as stated, counting an entry whose value was set to undefined as
   removed: the pending table holds the entry of a call exactly while the
   promise of the call is unsettled. *)
C16_EntryExactlyWhileUnsettled ==
  \A t \in 1..Len(reqs) :
    IsCall(t) => (pending[ToString(t)] = t <=> reqs[t].promise.st = "pending")

(* C12 as stated: disconnect() settles no request and invokes no callback,
   and a request that is unsettled once disconnect() has been called stays
   unsettled until its own deadline rejects it with TIMEOUT. *)
C12_Original ==
  [][/\ turn'.op = "disconnect" => (reqs' = reqs /\ turn'.invoked = <<>>)
     /\ \A t \in 1..Len(reqs) :
          (~reconnect /\ reqs[t].promise.st = "pending"
             /\ reqs'[t].promise # reqs[t].promise)
          => (ExpiryOf(t) /\ reqs'[t].promise = Rejected([code |-> "TIMEOUT"]))
    ]_vars

(* C12 as amended: disconnect() settles no request, changes no pending
   entry and invokes no callback; a request that is unsettled once
   disconnect() has been called stays unsettled until a message that still
   arrives on the closing socket settles it or its own deadline rejects it
   with TIMEOUT; and every such request is eventually settled. *)
C12_DisconnectAbandonsRequests ==
  /\ [][/\ turn'.op = "disconnect"
            => (reqs' = reqs /\ pending' = pending /\ turn'.invoked = <<>>)
         /\ \A t \in 1..Len(reqs) :
              (~reconnect /\ reqs[t].promise.st = "pending"
                 /\ reqs'[t].promise # reqs[t].promise)
              => \/ ExpiryOf(t) /\ reqs'[t].promise = Rejected([code |-> "TIMEOUT"])
                 \/ MessageStep /\ turn'.matched = t
        ]_vars
  /\ \A t \in TxIds :
       (~reconnect /\ PromiseState(t) = "pending")
         ~> (PromiseState(t) \in {"fulfilled", "rejected"})

(* After disconnect(), the deadline of the only request that has timed out
   fires: the request was sent on the open socket and was still unsettled
   when disconnect() was called. *)
C12_Witness ==
  /\ ~reconnect
  /\ turn.op = "failTimer"
  /\ \E t \in 1..Len(reqs) :
       /\ reqs[t].failTimer = "fired"
       /\ reqs[t].promise = Rejected([code |-> "TIMEOUT"])
       /\ \A u \in 1..Len(reqs) : u # t => reqs[u].failTimer # "fired"

(* C13 as stated, for a client that has not disconnected, whose socket is
   open and which has no refresh in flight: while a token is held and the
   client believes it is connected, the token refresh timer is armed. *)
C13_RefreshTimerArmedWhileConnected ==
  (/\ token = "held"
   /\ connected
   /\ reconnect
   /\ sock[1] = "open"
   /\ tokenRefresh = "idle")
  => tokenTimer = "armed"

(* C18 as stated: when disconnect() has run, no idle ping timer, no token
   refresh timer and no subscription timer is live, whether its handle is
   still held by the client or was overwritten. *)
C18_NoTimerLiveAfterDisconnect ==
  turn.op = "disconnect"
    => /\ pingTimer # "armed"
       /\ tokenTimer # "armed"
       /\ subscriptionTimer # "armed"
       /\ orphanSubTimers = 0

(* C19 as stated, for a client that has not disconnected: every send, every
   inbound message and every inbound ping restarts the idle ping timer, so
   that the timer is live afterwards. *)
C19_ActivityRestartsPingTimer ==
  [][(turn'.op \in {"z_call", "z_subscribe", "message", "ping"} /\ reconnect')
       => pingTimer' = "armed"
    ]_vars

(* C20 as stated: when the subscription timer held by the client fires, it
   is scheduled again exactly when some subscription is registered and the
   idle ping timer handle is set. *)
C20_SubscriptionTimerReschedules ==
  [][(/\ turn'.op = "subscriptionTimer"
      /\ subscriptionTimer = "armed"
      /\ orphanSubTimers = 0)
     => (subscriptionTimer' = "armed"
           <=> /\ \E k \in SubKeys : subscriptions[k] # <<>>
               /\ pingTimer # "undefined")
    ]_vars

(* C22: when auth() fails, the error it rejects with is a ZenithError whose
   code is the underlying code for a transport failure, BADCREDS for the
   body error invalid_client, NOACCESS for unauthorized_client, and for any
   other body error that error with its error_description as the message;
   and the step stores no token and arms no refresh timer. *)
C22_AuthFailureClassified ==
  [][\A i \in SockIds, err \in AuthFailures :
       authFails(i, err) =>
         /\ turn'.op = "authFails"
         /\ connPromise'[i] = "rejected"
         /\ UNCHANGED <<token, tokenTimer>>
         /\ err.code # ""
              => (turn'.raised.name = "ZenithError" /\ turn'.raised.code = err.code)
         /\ (err.code = "" /\ err.parses) =>
              /\ turn'.raised.name = "ZenithError"
              /\ err.error = "invalid_client" => turn'.raised.code = "BADCREDS"
              /\ err.error = "unauthorized_client" => turn'.raised.code = "NOACCESS"
              /\ err.error \notin {"invalid_client", "unauthorized_client"}
                   => /\ turn'.raised.code = err.error
                      /\ turn'.raised.message = err.error_description
    ]_vars

(* auth() has failed on bad credentials, with no token held and no refresh
   timer set. *)
C22_Witness ==
  /\ turn.op = "authFails"
  /\ turn.raised = [name |-> "ZenithError", code |-> "BADCREDS",
                    message |-> "Bad credentials: denied"]
  /\ token = "undefined"
  /\ tokenTimer = "undefined"

(* C21 as stated: a successful refresh stores the token, leaves the refresh
   timer armed and sends the Auth/AuthToken call in the same turn; and when
   the server answers that call with a payload whose Result is not Success,
   the refresh fails with a ZenithError whose code is ACCESS_REVOKED. *)
C21_RefreshThenAuthToken ==
  [][/\ turn'.op = "refreshSucceeds"
          => /\ token' = "held"
             /\ tokenTimer' = "armed"
             /\ Len(reqs') = Len(reqs) + 1
             /\ reqs'[Len(reqs')].Topic = "AuthToken"
     /\ (/\ MessageStep
         /\ turn'.matched # 0
         /\ reqs[turn'.matched].Topic = "AuthToken"
         /\ reqs[turn'.matched].promise.st = "pending"
         /\ reqs'[turn'.matched].promise.st = "fulfilled"
         /\ turn'.msg.Data.Result # "Success")
          => (turn'.raised.name = "ZenithError"
                /\ turn'.raised.code = "ACCESS_REVOKED")
    ]_vars

(* C23 as stated: when the idle ping timer fires on an open connection of a
   client that has not disconnected, and the ping is sent, a timer for the
   next ping is running afterwards. *)
C23_PingsKeepBeingSent ==
  [][(/\ turn'.op = "pingTimer"
      /\ turn'.thrown = "none"
      /\ reconnect
      /\ ws # 0 /\ sock[ws] = "open")
     => pingTimer' = "armed"
    ]_vars

(* C24 as stated: disconnect() called when authentication has failed and no
   socket was ever created raises nothing and leaves the timers cancelled
   and the reconnect flag false. *)
C24_DisconnectAfterFailedConnect ==
  (/\ turn.op = "disconnect"
   /\ ws = 0
   /\ \E i \in SockIds : sock[i] = "authfailed")
  => /\ turn.thrown = "none"
     /\ ~reconnect
     /\ pingTimer = "undefined"
     /\ tokenTimer = "undefined"
     /\ subscriptionTimer = "undefined"

(* C25 as stated: with two subscribes on one key outstanding, the deadline
   expiry of one leaves the pending slot that holds the other as it was,
   and a message for the key that carries no Error fulfils both. *)
C25_SubscribesOnOneKeyIndependent ==
  [][\A t, u \in 1..Len(reqs) :
       (/\ t # u
        /\ IsSub(t) /\ IsSub(u) /\ KeyOf(t) = KeyOf(u)
        /\ reqs[t].promise.st = "pending" /\ reqs[t].failTimer = "armed"
        /\ reqs[u].promise.st = "pending" /\ reqs[u].failTimer = "armed")
       => /\ (ExpiryOf(t) /\ pending[KeyOf(u)] = u) => pending'[KeyOf(u)] = u
          /\ (MessageStep /\ turn'.key = KeyOf(t) /\ ~CarriesError(turn'.msg))
               => /\ reqs'[t].promise.st = "fulfilled"
                  /\ reqs'[u].promise.st = "fulfilled"
    ]_vars

(* C26 as stated: the request held by an entry of the pending table has a
   live deadline timer. *)
C26_EveryEntryHasLiveTimer ==
  \A k \in DOMAIN pending :
    pending[k] # 0 => reqs[pending[k]].failTimer = "armed"

(* C27 as stated: on a client that has connected, a token refresh that was
   in flight when disconnect() was called (the refresh timer handle, which the firing left set, has been
   cleared by disconnect() since) and then succeeds arms no refresh timer
   and no idle ping timer and sends no Auth/AuthToken call. *)
C27_RefreshAfterDisconnectInert ==
  [][(/\ turn'.op = "refreshSucceeds"
      /\ tokenRefresh = "inflight"
      /\ tokenTimer = "undefined"
      /\ ~reconnect
      /\ connected)
     => /\ tokenTimer' # "armed"
        /\ pingTimer' # "armed"
        /\ reqs' = reqs
    ]_vars

====
